---- MODULE Spec2Model ----
(***************************************************************************)
(* stestr "run" command: run_command (ad-hoc single test, ordinary run,    *)
(* isolated mode, isolation analysis with its bisection loop),             *)
(* _prior_tests and the execution primitive _run_tests of                  *)
(* stestr/commands/run.py.                                                 *)
(*                                                                         *)
(* The worker command (config_file.TestrConf.get_run_command), the         *)
(* repository and the stream loader (commands.load.load) live outside      *)
(* run.py; they are modelled by their contract and their outcomes are      *)
(* chosen nondeterministically.                                            *)
(*                                                                         *)
(* The analysis calls _run_tests(cmd) (run.py:329, 365) and                *)
(* _prior_tests(latest_run, spurious_failure) (run.py:349) with fewer      *)
(* arguments than the signatures of run.py:454 and run.py:411 take. The    *)
(* calls are modelled as reaching the functions, the flags they omit       *)
(* taken as unset.                                                         *)
(***************************************************************************)
EXTENDS Integers, Sequences, FiniteSets, TLC

\* ------------------------------------------------------------- bounds
NumTests == 3
MaxLen == 3
MaxIter == 3
MaxCode == 2
MaxFailing == 2
MaxRuns == 2
MaxChars == 7

Tests == 1..NumTests

\* The value 'unknown - no conflicts' of run.py:401. Test ids are 1..NumTests,
\* so 0 is no test id.
UnknownNoConflicts == 0

\* Worker tags of a run's events ('worker-N'); an event without one is filed
\* under None (run.py:432-433).
Workers == {"worker-0", "worker-1"}
NoWorker == "None"

VARIABLES
    opts,               \* run_command's parameters
    combine_id,         \* run.py:203-206
    pc,                 \* position in run_command
    repo,               \* the repository: failing ids, latest run
    latest_run,         \* run.py:317, the run captured before phase a
    wh,                 \* _prior_tests' cache (_worker_to_test/_test_to_worker)
    ids,                \* run.py:248-262
    todo,               \* what the current for loop has still to visit
    test_id,            \* loop variable of run.py:279 and run.py:321
    cmd,                \* the worker command in use
    rt,                 \* the frame of the _run_tests call in progress
    result,             \* run.py:273, isolated mode's running maximum
    spurious_failures,  \* run.py:320
    test_conflicts,     \* run.py:347
    spurious_failure,   \* loop variable of run.py:348
    candidate_causes,   \* run.py:349
    bottom,             \* run.py:351
    top,                \* run.py:352
    width,              \* run.py:353
    out,                \* what was written to the output sink
    ret,                \* how run_command ended
    hist                \* history kept for the properties, read by no action

vars == <<opts, combine_id, pc, repo, latest_run, wh, ids, todo, test_id, cmd, rt, result,
          spurious_failures, test_conflicts, spurious_failure,
          candidate_causes, bottom, top, width, out, ret, hist>>

\* ------------------------------------------------------------ helpers
\* The characters of a no_discover value: the path separator, the dot and
\* any other character
Chars == {"/", ".", "t"}

\* no_discover when it is not given (False, or the empty string, which
\* run.py:207 takes for the same), and a test id of one character
NoValue == <<>>
BareId == <<"t">>

\* run.py:207: `if no_discover:`
NoDiscover == opts.no_discover # NoValue

Range(s) == {s[i] : i \in 1..Len(s)}

Max(a, b) == IF a > b THEN a ELSE b

\* s[lo:hi] of Python, 0-based, on a list
Slice(s, lo, hi) == [i \in 1..(Max(Max(hi, lo) - lo, 0)) |-> s[lo + i]]

\* Sequences over S of length at most n
SeqsUpTo(S, n) == UNION {[1..k -> S] : k \in 0..n}

\* d[k] = v on a dict
DictSet(d, k, v) == [x \in (DOMAIN d) \cup {k} |-> IF x = k THEN v ELSE d[x]]

EmptyDict == [x \in {} |-> 0]

\* ceil(log2(n)) for n >= 1
RECURSIVE CeilLog2(_)
CeilLog2(n) == IF n <= 1 THEN 0 ELSE 1 + CeilLog2((n + 1) \div 2)

\* ------------------------------------------- collaborators (contracts)
\* One event of a run's stream: a test id and its worker tags, in the order
\* the decoder hands them out.
Event(t, tags) == [id |-> t, tags |-> tags]

\* The run record the loader persists for the tests `ran` of the command's
\* id list `idlist`, in the order they were listed.
ToStream(idlist, ran) ==
    LET kept == SelectSeq(idlist, LAMBDA t : t \in ran)
    IN  [i \in 1..Len(kept) |-> Event(kept[i], <<>>)]

\* repo.get_test_ids(run id)
TestIds(stream) == {stream[i].id : i \in 1..Len(stream)}

\* Return codes of load.load for a run in which `failed` failed: 0 success,
\* 1 failure seen, above 1 a loader error; with subunit output load returns
\* 0 whatever failed (run.py:230-232, 481-483).
LoadCodes(failed, subunit_out) ==
    {c \in 0..MaxCode :
        /\ (c = 0 => (subunit_out \/ failed = {}))
        /\ (c = 1 => (failed # {} /\ ~subunit_out))}

\* A run id handed to the loader: None, or the text of a run's number
NoneId == [none |-> TRUE, text |-> 0]
TextType(n) == [none |-> FALSE, text |-> n]

\* repo.latest_id(): the number of the latest run; runs are numbered from 0
\* and a repository without a run has none (the call raises)
LatestIdRaises(r) == r.count = 0
LatestId(r) == r.count - 1

\* load.load's effect on the repository: without a run id a new latest run;
\* with the id of the latest run the events are added to that run, which
\* is successful if it was and nothing failed now; a partial run leaves the
\* failing status of the tests it did not run. Of a run the events of the
\* last load into it are kept (no step reads the events of a run that was
\* loaded into by id), and runs past MaxRuns + 1 are not counted.
Load(r, idlist, ran, failed, partial, run_id) ==
    [failing |-> IF partial THEN (r.failing \ ran) \cup failed ELSE failed,
     count   |-> IF run_id.none /\ r.count <= MaxRuns
                 THEN r.count + 1 ELSE r.count,
     latest  |-> [stream |-> ToStream(idlist, ran),
                  ok |-> IF run_id.none THEN failed = {}
                         ELSE r.latest.ok /\ failed = {}]]

\* conf.get_run_command(ids, ...): a command not yet set up
GetRunCommand(idlist) == [ids |-> idlist, st |-> "new"]

NoCommand == [ids |-> <<>>, st |-> "none"]

\* ------------------------------------------------ _run_tests (454-499)
\* The frame of a call: the parameters, the local `result`, where the call
\* stands, whether an exception is on its way out, and counts of what the
\* call has done (iters: calls of the inner run_tests; loads: calls of
\* load.load; nomatches: 'no match' returns; results: the result each
\* iteration ended with).
IdleFrame ==
    [pc |-> "idle", failing |-> FALSE, analyze_isolation |-> FALSE,
     isolated |-> FALSE, until_failure |-> FALSE, subunit_out |-> FALSE,
     combine_id |-> NoneId, run_ids |-> {}, result |-> 0, exc |-> FALSE, iters |-> 0, loads |-> 0, nomatches |-> 0,
     setUps |-> 0, cleanUps |-> 0, results |-> <<>>, inner |-> 0,
     rereads |-> 0, partials |-> {}, trace |-> <<>>, setUpCalls |-> 0]

\* Entry of _run_tests(cmd, failing, analyze_isolation, isolated,
\* until_failure, subunit_out=..., combine_id=...)
CallRunTests(failing, analyze_isolation, isolated, until_failure, subunit_out, run_id) ==
    [IdleFrame EXCEPT !.pc = "setUp", !.failing = failing,
                      !.analyze_isolation = analyze_isolation,
                      !.isolated = isolated,
                      !.until_failure = until_failure,
                      !.subunit_out = subunit_out,
                      !.combine_id = run_id]

\* run.py:464-466
Partial(f) == f.failing \/ f.analyze_isolation \/ f.isolated

RtUnchanged ==
    UNCHANGED <<opts, combine_id, pc, latest_run, wh, ids, todo, test_id, result,
                spurious_failures, test_conflicts, spurious_failure,
                candidate_causes, bottom, top, width, ret, hist>>

\* run.py:458: cmd.setUp(), outside the try block: when it raises, the
\* finally clause of line 498 is not in force.
RtSetUp ==
    /\ rt.pc = "setUp"
    /\ \E ok \in BOOLEAN :
        /\ rt' = IF ok THEN [rt EXCEPT !.pc = "spawn", !.setUps = @ + 1,
                                       !.setUpCalls = @ + 1,
                                       !.trace = Append(@, "setUp")]
                       ELSE [rt EXCEPT !.pc = "ret", !.exc = TRUE,
                                       !.setUpCalls = @ + 1]
        /\ cmd' = IF ok THEN [cmd EXCEPT !.st = "setup"] ELSE cmd
    /\ UNCHANGED <<repo, out>>
    /\ RtUnchanged

\* A spawn step that takes an empty set of processes for a success
RtSpawnNoMatchSucceeds ==
    /\ rt.pc = "spawn"
    /\ \E procs \in {"raise", "none", "some"} :
        /\ rt' = CASE procs = "raise" ->
                        [rt EXCEPT !.pc = "cleanUp", !.exc = TRUE,
                                   !.iters = @ + 1,
                                   !.trace = Append(@, "run")]
                   [] procs = "none" ->
                        [rt EXCEPT !.pc = "check", !.result = 0,
                                   !.iters = @ + 1, !.nomatches = @ + 1,
                                   !.trace = Append(@, "run")]
                   [] OTHER ->
                        [rt EXCEPT !.pc = "load", !.iters = @ + 1,
                                   !.trace = Append(@, "run")]
        /\ out' = IF procs = "none" THEN Append(out, "nomatch") ELSE out
    /\ UNCHANGED <<repo, cmd>>
    /\ RtUnchanged

\* A spawn step whose exception leaves the function past the finally clause
RtSpawnNoFinally ==
    /\ rt.pc = "spawn"
    /\ \E procs \in {"raise", "none", "some"} :
        /\ rt' = CASE procs = "raise" ->
                        [rt EXCEPT !.pc = "ret", !.exc = TRUE,
                                   !.iters = @ + 1,
                                   !.trace = Append(@, "run")]
                   [] procs = "none" ->
                        [rt EXCEPT !.pc = "check", !.result = 1,
                                   !.iters = @ + 1, !.nomatches = @ + 1,
                                   !.trace = Append(@, "run")]
                   [] OTHER ->
                        [rt EXCEPT !.pc = "load", !.iters = @ + 1,
                                   !.trace = Append(@, "run")]
        /\ out' = IF procs = "none" THEN Append(out, "nomatch") ELSE out
    /\ UNCHANGED <<repo, cmd>>
    /\ RtUnchanged

\* run.py:460-469: one call of the inner run_tests up to the loader:
\* cmd.run_tests() raises, yields no process (message, return 1) or yields
\* processes.
RtSpawn ==
    /\ rt.pc = "spawn"
    /\ \E procs \in {"raise", "none", "some"} :
        /\ rt' = CASE procs = "raise" ->
                        [rt EXCEPT !.pc = "cleanUp", !.exc = TRUE,
                                   !.iters = @ + 1,
                                   !.trace = Append(@, "run")]
                   [] procs = "none" ->
                        [rt EXCEPT !.pc = "check", !.result = 1,
                                   !.iters = @ + 1, !.nomatches = @ + 1,
                                   !.trace = Append(@, "run")]
                   [] OTHER ->
                        [rt EXCEPT !.pc = "load", !.iters = @ + 1,
                                   !.trace = Append(@, "run")]
        /\ out' = IF procs = "none" THEN Append(out, "nomatch") ELSE out
    /\ UNCHANGED <<repo, cmd>>
    /\ RtUnchanged

\* run.py:470-474: load.load(...) persists the run and returns its code,
\* or raises.
RtLoad ==
    /\ rt.pc = "load"
    /\ \E ok \in BOOLEAN :
        IF ok
        THEN \E ran \in SUBSET Range(cmd.ids) :
             \E failed \in SUBSET ran :
             \E code \in LoadCodes(failed, rt.subunit_out) :
                /\ repo' = Load(repo, cmd.ids, ran, failed, Partial(rt),
                                rt.combine_id)
                /\ rt' = [rt EXCEPT !.pc = "check", !.result = code,
                                    !.loads = @ + 1,
                                    !.run_ids = @ \cup {rt.combine_id},
                                    !.partials = @ \cup {Partial(rt)},
                                    !.trace = Append(@, "load")]
        ELSE /\ rt' = [rt EXCEPT !.pc = "cleanUp", !.exc = TRUE]
             /\ repo' = repo
    /\ UNCHANGED <<cmd, out>>
    /\ RtUnchanged

\* A loop that goes round again on a failing iteration instead
LoopAgainOnFailure(res) == res # 0

\* run.py:496 and run.py:244: `if result: return result`
LoopAgain(res) == res = 0

\* A recheck that leaves the loader's code as it is
RecheckKeepsCode(f, r) == f.result

\* run.py:484-495: with subunit output the result of an iteration is 1 when
\* the repository's latest run was not successful
Recheck(f, r) ==
    IF f.subunit_out /\ ~r.latest.ok THEN 1 ELSE f.result

\* run.py:484: the latest run is read again only in the until_failure
\* loop and only with subunit output
Rereads(f) == f.until_failure /\ f.subunit_out

\* run.py:476-497: without until_failure the result is returned; with it
\* the iteration's result is rechecked (reading the repository may raise)
\* and the loop goes round again while the result is 0.  inner keeps what
\* the inner run_tests() of the iteration returned, rereads counts the
\* reads of the latest run.
RtCheck ==
    /\ rt.pc = "check"
    /\ \E ok \in BOOLEAN :
        LET res == IF rt.until_failure THEN Recheck(rt, repo) ELSE rt.result
            n   == IF Rereads(rt) THEN rt.rereads + 1 ELSE rt.rereads
        IN  /\ (~ok => Rereads(rt))
            /\ rt' = IF ~ok
                       THEN [rt EXCEPT !.pc = "cleanUp", !.exc = TRUE,
                                       !.rereads = n]
                     ELSE IF ~(rt.until_failure /\ LoopAgain(res))
                       THEN [rt EXCEPT !.pc = "cleanUp", !.result = res,
                                       !.results = Append(@, res),
                                       !.inner = rt.result, !.rereads = n]
                     ELSE [rt EXCEPT !.pc = "spawn", !.result = res,
                                     !.results = Append(@, res),
                                     !.inner = rt.result, !.rereads = n]
            /\ (rt'.pc = "spawn" => rt.iters < MaxIter)
    /\ UNCHANGED <<repo, cmd, out>>
    /\ RtUnchanged

\* run.py:498-499: finally: cmd.cleanUp(); then the return value or the
\* exception reaches the caller.
RtCleanUp ==
    /\ rt.pc = "cleanUp"
    /\ rt' = [rt EXCEPT !.pc = "ret", !.cleanUps = @ + 1,
                        !.trace = Append(@, "cleanUp")]
    /\ cmd' = [cmd EXCEPT !.st = "clean"]
    /\ UNCHANGED <<repo, out>>
    /\ RtUnchanged

RunTestsStep == RtSetUp \/ RtSpawn \/ RtLoad \/ RtCheck \/ RtCleanUp

\* ------------------------------------------------ _prior_tests (411-451)
\* run.py:428-433: the worker tags of an event, [None] when it has none
WorkersOfEvent(e) ==
    LET workers == SelectSeq(e.tags, LAMBDA tag : tag \in Workers)
    IN  IF Len(workers) = 0 THEN <<NoWorker>> ELSE workers

\* run.py:435: worker_to_test[worker], in the order of the stream
WorkerToTest(stream, w) ==
    LET sel == SelectSeq(stream, LAMBDA e : w \in Range(WorkersOfEvent(e)))
    IN  [i \in 1..Len(sel) |-> sel[i].id]

\* run.py:436: test_to_worker[id], the workers of every event of the id
RECURSIVE TestToWorker(_, _)
TestToWorker(stream, id) ==
    IF Len(stream) = 0 THEN <<>>
    ELSE (IF Head(stream).id = id THEN WorkersOfEvent(Head(stream)) ELSE <<>>)
         \o TestToWorker(Tail(stream), id)

\* list.index(x), 0-based
IndexOf(s, x) == (CHOOSE i \in 1..Len(s) :
                     s[i] = x /\ \A j \in 1..(i - 1) : s[j] # x) - 1

\* run.py:447-451
RECURSIVE PriorOnWorkers(_, _, _)
PriorOnWorkers(stream, workers, failing_id) ==
    IF Len(workers) = 0 THEN <<>>
    ELSE LET worker_tests == WorkerToTest(stream, Head(workers))
         IN  Slice(worker_tests, 0, IndexOf(worker_tests, failing_id))
             \o PriorOnWorkers(stream, Tail(workers), failing_id)

\* A lookup that yields no worker for an id the stream does not hold
PriorTestsNeverRaises(stream, failing_id) == FALSE

\* run.py:446: the lookup of an id the stream does not hold raises KeyError
PriorTestsRaises(stream, failing_id) == failing_id \notin TestIds(stream)

PriorTests(stream, failing_id) ==
    PriorOnWorkers(stream, TestToWorker(stream, failing_id), failing_id)

\* run.py:416: `if not getattr(self, '_worker_to_test', False)`: no
\* mapping is cached, or the cached one is empty
NeedsDecode(cache) == ~cache.built \/ Len(cache.stream) = 0

\* A call that decodes the run every time
DecodeEveryCall(cache, run) ==
    [built |-> TRUE, stream |-> run, decodes |-> cache.decodes + 1]

\* run.py:416-445: the stream is decoded when no mapping is cached
\* (decodes counts the times it was)
Decode(cache, run) ==
    IF NeedsDecode(cache)
    THEN [built |-> TRUE, stream |-> run, decodes |-> cache.decodes + 1]
    ELSE cache

NoCache == [built |-> FALSE, stream |-> <<>>, decodes |-> 0]

\* ------------------------------------------------ run_command (124-408)
Running == [kind |-> "none", value |-> 0]
Returned(v) == [kind |-> "return", value |-> v]
Raised == [kind |-> "raise", value |-> 0]

\* `ids` is None or a collection of test ids
NoIds == [none |-> TRUE, set |-> {}]
Ids(S) == [none |-> FALSE, set |-> S]

\* The ids of S as a list
RECURSIVE ListOf(_)
ListOf(S) ==
    IF S = {} THEN <<>>
    ELSE LET m == CHOOSE x \in S : \A y \in S : x <= y
         IN  <<m>> \o ListOf(S \ {m})

\* The tests a command built from `ids` lists: all of them for None
IdList(i) == IF i.none THEN ListOf(Tests) ELSE ListOf(i.set)

\* run.py:106-121: the ids the repository records as failing
FindFailing(r) == r.failing

\* A prologue that captures a run id whether combine is set or not
CombineIdAlways(r, combine) == TextType(LatestId(r))

\* run.py:203-206: None, or the text of the repository's latest run id
CombineId(r, combine) == IF combine THEN TextType(LatestId(r)) ELSE NoneId

\* run.py:192-206: the repository is opened; with combine its latest run id
\* is read (which raises when it holds no run) and kept as text
Prologue ==
    /\ pc = "start"
    /\ IF opts.combine /\ LatestIdRaises(repo)
       THEN /\ ret' = Raised
            /\ pc' = "done"
            /\ UNCHANGED combine_id
       ELSE /\ combine_id' = CombineId(repo, opts.combine)
            /\ pc' = "mode"
            /\ UNCHANGED ret
    /\ UNCHANGED <<opts, repo, latest_run, wh, ids, todo, test_id, cmd, rt,
                   result, spurious_failures, test_conflicts,
                   spurious_failure, candidate_causes, bottom, top, width,
                   out, hist>>

\* parse_list(list_file.read()): the ids the list file names
ParseList == 1..(NumTests - 1)

\* run.py:247-262: the failing ids or None, then reduced to (or replaced
\* by) the ids of the list file when load_list is given
SelectIds ==
    LET failing_ids == IF opts.failing \/ opts.analyze_isolation
                       THEN Ids(FindFailing(repo)) ELSE NoIds
    IN  IF ~opts.load_list THEN failing_ids
        ELSE IF failing_ids.none THEN Ids(ParseList)
        ELSE Ids(ParseList \cap failing_ids.set)

\* run.py:251-255: the list file is opened and read when load_list is
\* given (selects counts the passes through lines 247-262, list_reads the
\* reads of the file)
SelectedIds(h) ==
    [h EXCEPT !.selects = @ + 1,
              !.list_reads = IF opts.load_list THEN @ + 1 ELSE @]

\* An ordinary run that starts whether no_discover is given or not
StartBatchBesideAdhoc ==
    /\ pc = "mode"
    /\ ~opts.analyze_isolation
    /\ ~opts.isolated
    /\ ids' = SelectIds
    /\ cmd' = GetRunCommand(IdList(ids'))
    /\ rt' = CallRunTests(opts.failing, opts.analyze_isolation, opts.isolated,
                          opts.until_failure, opts.subunit_out, combine_id)
    /\ pc' = "batch"
    /\ hist' = SelectedIds(hist)
    /\ UNCHANGED <<opts, combine_id, repo, latest_run, wh, todo, test_id, result,
                   spurious_failures, test_conflicts, spurious_failure,
                   candidate_causes, bottom, top, width, out, ret>>

\* run.py:247-271, 302-311: an ordinary run, one _run_tests call
StartBatch ==
    /\ pc = "mode"
    /\ ~NoDiscover
    /\ ~opts.analyze_isolation
    /\ ~opts.isolated
    /\ ids' = SelectIds
    /\ cmd' = GetRunCommand(IdList(ids'))
    /\ rt' = CallRunTests(opts.failing, opts.analyze_isolation, opts.isolated,
                          opts.until_failure, opts.subunit_out, combine_id)
    /\ pc' = "batch"
    /\ hist' = SelectedIds(hist)
    /\ UNCHANGED <<opts, combine_id, repo, latest_run, wh, todo, test_id, result,
                   spurious_failures, test_conflicts, spurious_failure,
                   candidate_causes, bottom, top, width, out, ret>>

\* run.py:303: return _run_tests(...)
BatchReturn ==
    /\ pc = "batch"
    /\ rt.pc = "ret"
    /\ ret' = IF rt.exc THEN Raised ELSE Returned(rt.result)
    /\ pc' = "done"
    /\ UNCHANGED <<opts, combine_id, repo, latest_run, wh, ids, todo, test_id, cmd, rt,
                   result, spurious_failures, test_conflicts,
                   spurious_failure, candidate_causes, bottom, top, width,
                   out, hist>>

\* run.py:247-274: isolated mode: the discovery command is built and set
\* up (cmd.setUp() may raise)
StartIsolated ==
    /\ pc = "mode"
    /\ ~NoDiscover
    /\ ~opts.analyze_isolation
    /\ opts.isolated
    /\ ids' = SelectIds
    /\ result' = 0
    /\ \E ok \in BOOLEAN :
        /\ cmd' = [GetRunCommand(IdList(ids')) EXCEPT
                      !.st = IF ok THEN "setup" ELSE "new"]
        /\ pc' = IF ok THEN "iso_list" ELSE "done"
        /\ ret' = IF ok THEN ret ELSE Raised
    /\ hist' = SelectedIds(hist)
    /\ UNCHANGED <<opts, combine_id, repo, latest_run, wh, todo, test_id, rt,
                   spurious_failures, test_conflicts, spurious_failure,
                   candidate_causes, bottom, top, width, out>>

\* A listing that leaves the discovery command set up
IsoListNoCleanUp ==
    /\ pc = "iso_list"
    /\ cmd' = cmd
    /\ \E ok \in BOOLEAN :
        IF ok
        THEN \E found \in SUBSET Range(cmd.ids) :
                /\ ids' = Ids(found)
                /\ todo' = ListOf(found)
                /\ pc' = "iso_loop"
                /\ UNCHANGED ret
        ELSE /\ ret' = Raised
             /\ pc' = "done"
             /\ UNCHANGED <<ids, todo>>
    /\ UNCHANGED <<opts, combine_id, repo, latest_run, wh, test_id, rt, result,
                   spurious_failures, test_conflicts, spurious_failure,
                   candidate_causes, bottom, top, width, out, hist>>

\* run.py:275-278: ids = cmd.list_tests(), then cmd.cleanUp() whether it
\* raised or not. Tests are numbered in the order discovery lists them.
IsoList ==
    /\ pc = "iso_list"
    /\ cmd' = [cmd EXCEPT !.st = "clean"]
    /\ \E ok \in BOOLEAN :
        IF ok
        THEN \E found \in SUBSET Range(cmd.ids) :
                /\ ids' = Ids(found)
                /\ todo' = ListOf(found)
                /\ pc' = "iso_loop"
                /\ UNCHANGED ret
        ELSE /\ ret' = Raised
             /\ pc' = "done"
             /\ UNCHANGED <<ids, todo>>
    /\ UNCHANGED <<opts, combine_id, repo, latest_run, wh, test_id, rt, result,
                   spurious_failures, test_conflicts, spurious_failure,
                   candidate_causes, bottom, top, width, out, hist>>

\* run.py:279-298: the next id of the list is run by a command of its own
IsoCall ==
    /\ pc = "iso_loop"
    /\ todo # <<>>
    /\ LET t == Head(todo)
       IN  /\ test_id' = t
           /\ todo' = Tail(todo)
           /\ cmd' = GetRunCommand(<<t>>)
           /\ hist' = [hist EXCEPT !.runs[t] = @ + 1]
    /\ rt' = CallRunTests(opts.failing, opts.analyze_isolation, opts.isolated,
                          opts.until_failure, opts.subunit_out, combine_id)
    /\ pc' = "iso_run"
    /\ UNCHANGED <<opts, combine_id, repo, latest_run, wh, ids, result,
                   spurious_failures, test_conflicts, spurious_failure,
                   candidate_causes, bottom, top, width, out, ret>>

\* A loop that keeps the last per-test code instead of the greatest
IsoResultLast(res, run_result) == run_result

\* run.py:299-300
IsoResult(res, run_result) == IF run_result > res THEN run_result ELSE res

\* run.py:288-300: the per-test run is back: its exception goes on, its
\* code raises the running maximum
IsoReturn ==
    /\ pc = "iso_run"
    /\ rt.pc = "ret"
    /\ rt' = IdleFrame
    /\ IF rt.exc
       THEN /\ ret' = Raised
            /\ pc' = "done"
            /\ UNCHANGED <<result, hist>>
       ELSE /\ result' = IsoResult(result, rt.result)
            /\ hist' = [hist EXCEPT !.codes[test_id] = rt.result]
            /\ pc' = "iso_loop"
            /\ UNCHANGED ret
    /\ UNCHANGED <<opts, combine_id, repo, latest_run, wh, ids, todo, test_id, cmd,
                   spurious_failures, test_conflicts, spurious_failure,
                   candidate_causes, bottom, top, width, out>>

\* run.py:301
IsoEnd ==
    /\ pc = "iso_loop"
    /\ todo = <<>>
    /\ ret' = Returned(result)
    /\ pc' = "done"
    /\ UNCHANGED <<opts, combine_id, repo, latest_run, wh, ids, todo, test_id, cmd, rt,
                   result, spurious_failures, test_conflicts,
                   spurious_failure, candidate_causes, bottom, top, width,
                   out, hist>>

\* ------------------------------- run_command: ad-hoc single test (207-245)
\* run.py:207-212: the test named by no_discover; the value is one test id
\* or a file path, here the test it names
AdhocTest == 1

\* str.rfind, 1-based, 0 when the character is not there
RFind(s, c) ==
    IF c \in Range(s)
    THEN CHOOSE i \in 1..Len(s) :
            s[i] = c /\ \A j \in (i + 1)..Len(s) : s[j] # c
    ELSE 0

\* The root of os.path.splitext(p): p up to the last dot when that dot lies
\* in the last path component and some character other than a dot stands
\* before it there; else p
SplitExtRoot(p) ==
    LET sepIndex == RFind(p, "/")
        dotIndex == RFind(p, ".")
    IN  IF /\ dotIndex > sepIndex
           /\ \E k \in (sepIndex + 1)..(dotIndex - 1) : p[k] # "."
        THEN SubSeq(p, 1, dotIndex - 1)
        ELSE p

\* str.replace(old, new) for single characters
Replace(s, old, new) ==
    [i \in 1..Len(s) |-> IF s[i] = old THEN new ELSE s[i]]

\* An id made of the path with its dots, the extension left on
AdhocIdReplaceFirst(value) ==
    IF "/" \in Range(value)
    THEN SplitExtRoot(Replace(value, "/", "."))
    ELSE value

\* run.py:208-211: the id the subprocess is given
AdhocId(value) ==
    IF "/" \in Range(value)
    THEN Replace(SplitExtRoot(value), "/", ".")
    ELSE value

\* run.py:233: `if subunit:` reads the imported module subunit, not the
\* parameter subunit_out; a module object is true
SubunitIsTrue == TRUE

\* run.py:207-229: on entry the id is made of the no_discover value; then
\* run_tests(): one subprocess, one load.load call (with
\* run_command's own `partial`), which may raise; without until_failure its
\* code is returned at once
AdhocRun ==
    /\ pc \in {"mode", "adhoc_loop"}
    /\ NoDiscover
    /\ pc = "adhoc_loop" => hist.iters < MaxIter
    /\ \E ok \in BOOLEAN :
        IF ok
        THEN \E ran \in SUBSET {AdhocTest} :
             \E failed \in SUBSET ran :
             \E code \in LoadCodes(failed, opts.subunit_out) :
                /\ repo' = Load(repo, <<AdhocTest>>, ran, failed, opts.partial,
                                combine_id)
                /\ result' = code
                /\ hist' = [hist EXCEPT !.iters = @ + 1, !.loads = @ + 1,
                                        !.run_ids = @ \cup {combine_id},
                                        !.partials = @ \cup {opts.partial}]
                /\ pc' = IF opts.until_failure THEN "adhoc_check" ELSE "done"
                /\ ret' = IF opts.until_failure THEN ret ELSE Returned(code)
        ELSE /\ ret' = Raised
             /\ pc' = "done"
             /\ hist' = [hist EXCEPT !.iters = @ + 1]
             /\ UNCHANGED <<repo, result>>
    /\ ids' = IF pc = "mode" THEN AdhocId(opts.no_discover) ELSE ids
    /\ UNCHANGED <<opts, combine_id, latest_run, wh, todo, test_id, cmd, rt,
                   spurious_failures, test_conflicts, spurious_failure,
                   candidate_causes, bottom, top, width, out>>

\* run.py:230-245: the latest run is read from the repository (which may
\* raise) and decoded again; an unsuccessful one makes the result 1; a
\* result other than 0 is returned.  inner keeps what run_tests() of the
\* iteration returned, rereads counts the reads of the latest run.
AdhocCheck ==
    /\ pc = "adhoc_check"
    /\ \E ok \in BOOLEAN :
        LET res == IF SubunitIsTrue /\ ~repo.latest.ok THEN 1 ELSE result
            n   == IF SubunitIsTrue THEN hist.rereads + 1 ELSE hist.rereads
        IN  IF ok
            THEN /\ result' = res
                 /\ hist' = [hist EXCEPT !.results = Append(@, res),
                                         !.inner = result, !.rereads = n]
                 /\ pc' = IF LoopAgain(res) THEN "adhoc_loop" ELSE "done"
                 /\ ret' = IF LoopAgain(res) THEN ret ELSE Returned(res)
            ELSE /\ SubunitIsTrue
                 /\ ret' = Raised
                 /\ pc' = "done"
                 /\ hist' = [hist EXCEPT !.rereads = n]
                 /\ UNCHANGED result
    /\ UNCHANGED <<opts, combine_id, repo, latest_run, wh, ids, todo, test_id, cmd, rt,
                   spurious_failures, test_conflicts, spurious_failure,
                   candidate_causes, bottom, top, width, out>>

\* ------------------------------- run_command: isolation analysis (312-408)
\* Half the width rounded down
CheckWidthFloor(w) == w \div 2

\* run.py:355: check_width = int(ceil(width / 2.0))
CheckWidth(w) == (w + 1) \div 2

\* A probe of the whole range that is left
ProbeSliceWholeRange == Slice(candidate_causes, bottom, top)

\* run.py:358: candidate_causes[bottom:bottom + check_width]
ProbeSlice == Slice(candidate_causes, bottom, bottom + CheckWidth(width))

\* run.py:247-250, 264, 312-320: the failing ids are read, the latest run
\* is captured, phase a starts
StartAnalysis ==
    /\ pc = "mode"
    /\ ~NoDiscover
    /\ opts.analyze_isolation
    /\ ids' = SelectIds
    /\ latest_run' = repo.latest.stream
    /\ spurious_failures' = {}
    /\ todo' = ListOf(ids'.set)
    /\ pc' = "phase_a"
    /\ hist' = SelectedIds(hist)
    /\ UNCHANGED <<opts, combine_id, repo, wh, test_id, cmd, rt, result, test_conflicts,
                   spurious_failure, candidate_causes, bottom, top, width,
                   out, ret>>

\* run.py:321-329: the next failing id is run on its own; ids is the list
\* _find_failing built (run.py:109-121), visited in its order. The call hands
\* over the command alone: failing, analyze_isolation, isolated and
\* until_failure are not passed and are taken as unset.
SoloCall ==
    /\ pc = "phase_a"
    /\ todo # <<>>
    /\ LET t == Head(todo)
       IN  /\ test_id' = t
           /\ todo' = Tail(todo)
           /\ cmd' = GetRunCommand(<<t>>)
           /\ hist' = [hist EXCEPT !.runs[t] = @ + 1]
    /\ rt' = CallRunTests(FALSE, FALSE, FALSE, FALSE, FALSE, NoneId)
    /\ pc' = "solo"
    /\ UNCHANGED <<opts, combine_id, repo, latest_run, wh, ids, result, spurious_failures,
                   test_conflicts, spurious_failure, candidate_causes, bottom,
                   top, width, out, ret>>

\* A test that did not fail alone is a spurious failure
IsSpuriousWhenPassed(run_result, t, r) == run_result = 0

\* run.py:329-332: a test that did not fail alone and is in the
\* repository's latest run is a spurious failure
IsSpurious(run_result, t, r) ==
    run_result = 0 /\ t \in TestIds(r.latest.stream)

\* run.py:329-332: the solo run is back (its frame is left as it ended)
SoloReturn ==
    /\ pc = "solo"
    /\ rt.pc = "ret"
    /\ rt' = rt
    /\ IF rt.exc
       THEN /\ ret' = Raised
            /\ pc' = "done"
            /\ UNCHANGED spurious_failures
       ELSE /\ spurious_failures' =
                  IF IsSpurious(rt.result, test_id, repo)
                  THEN spurious_failures \cup {test_id}
                  ELSE spurious_failures
            /\ pc' = "phase_a"
            /\ UNCHANGED ret
    /\ UNCHANGED <<opts, combine_id, repo, latest_run, wh, ids, todo, test_id, cmd,
                   result, test_conflicts, spurious_failure, candidate_causes,
                   bottom, top, width, out, hist>>

\* run.py:343-347: no spurious failure: return 0; else phase b starts
PhaseAEnd ==
    /\ pc = "phase_a"
    /\ todo = <<>>
    /\ IF spurious_failures = {}
       THEN /\ ret' = Returned(0)
            /\ pc' = "done"
            /\ UNCHANGED <<todo, test_conflicts>>
       ELSE /\ test_conflicts' = EmptyDict
            /\ todo' = ListOf(spurious_failures)
            /\ pc' = "phase_b"
            /\ UNCHANGED ret
    /\ UNCHANGED <<opts, combine_id, repo, latest_run, wh, ids, test_id, cmd, rt, result,
                   spurious_failures, spurious_failure, candidate_causes,
                   bottom, top, width, out, hist>>

\* run.py:348-353: the next spurious failure (a set is iterated, in any
\* order) and its candidate causes
NextFailure ==
    /\ pc = "phase_b"
    /\ todo # <<>>
    /\ \E f \in Range(todo) :
        /\ spurious_failure' = f
        /\ todo' = ListOf(Range(todo) \ {f})
        /\ wh' = Decode(wh, latest_run)
        /\ IF PriorTestsRaises(wh'.stream, f)
           THEN /\ ret' = Raised
                /\ pc' = "done"
                /\ hist' = [hist EXCEPT !.prior_calls = @ + 1]
                /\ UNCHANGED <<candidate_causes, bottom, top, width>>
           ELSE /\ candidate_causes' = PriorTests(wh'.stream, f)
                /\ bottom' = 0
                /\ top' = Len(candidate_causes')
                /\ width' = top' - bottom'
                /\ hist' = [hist EXCEPT !.probes = 0,
                                        !.culprits = Range(candidate_causes'),
                                        !.reproduced = FALSE,
                                        !.prior_calls = @ + 1,
                                        !.reads = 0, !.trace = <<>>]
                /\ pc' = "while"
                /\ UNCHANGED ret
    /\ UNCHANGED <<opts, combine_id, repo, latest_run, ids, test_id, cmd, rt, result,
                   spurious_failures, test_conflicts, out>>

\* run.py:354-365: one probe: the first half of the range, then the
\* failing test, run as one batch (flags unset as in SoloCall)
ProbeCall ==
    /\ pc = "while"
    /\ width # 0
    /\ cmd' = GetRunCommand(ProbeSlice \o <<spurious_failure>>)
    /\ rt' = CallRunTests(FALSE, FALSE, FALSE, FALSE, FALSE, NoneId)
    /\ hist' = [hist EXCEPT !.probes = @ + 1,
                            !.prev = [bottom |-> bottom, top |-> top,
                                      width |-> width]]
    /\ pc' = "probe"
    /\ UNCHANGED <<opts, combine_id, repo, latest_run, wh, ids, todo, test_id, result,
                   spurious_failures, test_conflicts, spurious_failure,
                   candidate_causes, bottom, top, width, out, ret>>

\* run.py:368-380: is the probed test in the repository's failing set
FoundFail == spurious_failure \in repo.failing

\* A narrowing step that halves the width once more at width 1
BisectFoundKeepsGoing ==
    /\ top' = bottom + CheckWidth(width)
    /\ bottom' = bottom
    /\ width' = top' - bottom'
    /\ test_conflicts' =
          IF width = 1
          THEN DictSet(test_conflicts, spurious_failure,
                       candidate_causes[bottom + 1])
          ELSE test_conflicts

\* run.py:380-389
BisectFound ==
    /\ top' = bottom + CheckWidth(width)
    /\ bottom' = bottom
    /\ IF width = 1
       THEN /\ test_conflicts' = DictSet(test_conflicts, spurious_failure,
                                         candidate_causes[bottom + 1])
            /\ width' = 0
       ELSE /\ width' = top' - bottom'
            /\ UNCHANGED test_conflicts

\* A step that names the last candidate the cause though the failure was
\* not reproduced
BisectNotFoundRecords ==
    /\ bottom' = bottom + CheckWidth(width)
    /\ top' = top
    /\ width' = IF width = 1 THEN 0 ELSE top' - bottom'
    /\ test_conflicts' =
          IF width = 1
          THEN DictSet(test_conflicts, spurious_failure,
                       candidate_causes[bottom + 1])
          ELSE test_conflicts

\* run.py:390-398
BisectNotFound ==
    /\ bottom' = bottom + CheckWidth(width)
    /\ top' = top
    /\ width' = IF width = 1 THEN 0 ELSE top' - bottom'
    /\ UNCHANGED test_conflicts

\* A read of the failing set that does not wait for the command's cleanUp
ProbeReturnBeforeCleanUp ==
    /\ pc = "probe"
    /\ rt.pc \in {"cleanUp", "ret"}
    /\ rt' = IdleFrame
    /\ IF rt.exc
       THEN /\ ret' = Raised
            /\ pc' = "done"
            /\ UNCHANGED <<bottom, top, width, test_conflicts, hist>>
       ELSE /\ IF FoundFail THEN BisectFound ELSE BisectNotFound
            /\ hist' = [hist EXCEPT
                          !.reproduced = FoundFail,
                          !.culprits = {c \in @ : FoundFail <=>
                                                  c \in Range(ProbeSlice)},
                          !.reads = @ + 1,
                          !.trace = Append(rt.trace, "read")]
            /\ pc' = "while"
            /\ UNCHANGED ret
    /\ UNCHANGED <<opts, combine_id, repo, latest_run, wh, ids, todo, test_id, cmd,
                   result, spurious_failures, spurious_failure,
                   candidate_causes, out>>

\* run.py:365-398: the probe is back: its exception goes on; else the
\* failing set is read and the range is narrowed by whether the failure
\* was reproduced (reads counts the reads, trace keeps the steps of the
\* probe in their order, prev the range the probe started from)
ProbeReturn ==
    /\ pc = "probe"
    /\ rt.pc = "ret"
    /\ rt' = IdleFrame
    /\ IF rt.exc
       THEN /\ ret' = Raised
            /\ pc' = "done"
            /\ UNCHANGED <<bottom, top, width, test_conflicts, hist>>
       ELSE /\ IF FoundFail THEN BisectFound ELSE BisectNotFound
            /\ hist' = [hist EXCEPT
                          !.reproduced = FoundFail,
                          !.culprits = {c \in @ : FoundFail <=>
                                                  c \in Range(ProbeSlice)},
                          !.reads = @ + 1,
                          !.trace = Append(rt.trace, "read")]
            /\ pc' = "while"
            /\ UNCHANGED ret
    /\ UNCHANGED <<opts, combine_id, repo, latest_run, wh, ids, todo, test_id, cmd,
                   result, spurious_failures, spurious_failure,
                   candidate_causes, out>>

\* A loop end that writes 'unknown - no conflicts' over any entry
LoopEndOverwrites ==
    /\ pc = "while"
    /\ width = 0
    /\ test_conflicts' =
          DictSet(test_conflicts, spurious_failure, UnknownNoConflicts)
    /\ pc' = "phase_b"
    /\ UNCHANGED <<opts, combine_id, repo, latest_run, wh, ids, todo, test_id, cmd, rt,
                   result, spurious_failures, spurious_failure,
                   candidate_causes, bottom, top, width, out, ret, hist>>

\* A loop end that records nothing
LoopEndRecordsNothing ==
    /\ pc = "while"
    /\ width = 0
    /\ pc' = "phase_b"
    /\ UNCHANGED <<opts, combine_id, repo, latest_run, wh, ids, todo, test_id, cmd, rt,
                   result, spurious_failures, test_conflicts,
                   spurious_failure, candidate_causes, bottom, top, width,
                   out, ret, hist>>

\* run.py:399-401
LoopEnd ==
    /\ pc = "while"
    /\ width = 0
    /\ test_conflicts' =
          IF spurious_failure \notin DOMAIN test_conflicts
          THEN DictSet(test_conflicts, spurious_failure, UnknownNoConflicts)
          ELSE test_conflicts
    /\ pc' = "phase_b"
    /\ UNCHANGED <<opts, combine_id, repo, latest_run, wh, ids, todo, test_id, cmd, rt,
                   result, spurious_failures, spurious_failure,
                   candidate_causes, bottom, top, width, out, ret, hist>>

\* A report that emits the table and returns 0
ReportReturnsZero ==
    /\ pc = "phase_b"
    /\ todo = <<>>
    /\ out' = IF DOMAIN test_conflicts # {} THEN Append(out, "table") ELSE out
    /\ ret' = Returned(0)
    /\ pc' = "done"
    /\ UNCHANGED <<opts, combine_id, repo, latest_run, wh, ids, todo, test_id, cmd, rt,
                   result, spurious_failures, test_conflicts,
                   spurious_failure, candidate_causes, bottom, top, width,
                   hist>>

\* run.py:402-408
Report ==
    /\ pc = "phase_b"
    /\ todo = <<>>
    /\ IF DOMAIN test_conflicts # {}
       THEN /\ out' = Append(out, "table")
            /\ ret' = Returned(3)
       ELSE /\ out' = out
            /\ ret' = Returned(0)
    /\ pc' = "done"
    /\ UNCHANGED <<opts, combine_id, repo, latest_run, wh, ids, todo, test_id, cmd, rt,
                   result, spurious_failures, test_conflicts,
                   spurious_failure, candidate_causes, bottom, top, width,
                   hist>>

\* ------------------------------------------------------ specifications
NoOpts ==
    [no_discover |-> NoValue, combine |-> FALSE, partial |-> FALSE,
     failing |-> FALSE, analyze_isolation |-> FALSE, isolated |-> FALSE,
     until_failure |-> FALSE, subunit_out |-> FALSE, load_list |-> FALSE]

NoHist ==
    [probes |-> 0, culprits |-> {}, reproduced |-> FALSE,
     runs |-> [t \in Tests |-> 0], codes |-> [t \in Tests |-> 0],
     iters |-> 0, loads |-> 0, results |-> <<>>, run_ids |-> {},
     start_count |-> 1, inner |-> 0, rereads |-> 0, partials |-> {},
     selects |-> 0, list_reads |-> 0, prior_calls |-> 0,
     reads |-> 0, trace |-> <<>>,
     prev |-> [bottom |-> 0, top |-> 0, width |-> 0]]

\* The stream of a run whose tests ran one after the other on one worker
OneWorkerStream(idlist, w) == [i \in 1..Len(idlist) |-> Event(idlist[i], <<w>>)]

\* The streams of a last full run in which no test ran twice: test ids
\* are opaque, so the k tests of the run are taken to be k, k-1, .., 1 in
\* the order they ran (not the order of their ids); each ran on worker-0
\* or untagged.
TagChoices == {<<>>, <<"worker-0">>}

Streams ==
    UNION {{[i \in 1..k |-> Event(k + 1 - i, tg[i])] :
                tg \in [1..k -> TagChoices]} : k \in 0..NumTests}

\* Sets of at most n elements of S
SubsetsUpTo(S, n) == {T \in SUBSET S : Cardinality(T) <= n}

\* What run_command starts from, but for the options and the repository
InitFrame ==
    /\ pc = "start"
    /\ latest_run = <<>>
    /\ wh = NoCache
    /\ combine_id = NoneId
    /\ ids = NoIds
    /\ todo = <<>>
    /\ test_id = 1
    /\ cmd = NoCommand
    /\ rt = IdleFrame
    /\ result = 0
    /\ spurious_failures = {}
    /\ test_conflicts = EmptyDict
    /\ spurious_failure = 1
    /\ candidate_causes = <<>>
    /\ bottom = 0
    /\ top = 0
    /\ width = 0
    /\ out = <<>>
    /\ ret = Running

InitLocals == InitFrame /\ hist = NoHist

\* An ad-hoc, ordinary or isolated run: any options but combine
\* (analyze_isolation only beside no_discover, which overrides it; partial
\* only there too, as
\* nothing else reads it), any set of failing tests; the latest run's
\* events are not read in these modes, only whether it was successful.
InitRun ==
    /\ opts \in {o \in [no_discover : {NoValue, BareId}, combine : {FALSE},
                        partial : BOOLEAN, failing : BOOLEAN, analyze_isolation : BOOLEAN,
                        isolated : BOOLEAN, until_failure : BOOLEAN,
                        subunit_out : BOOLEAN, load_list : BOOLEAN] :
                    (o.analyze_isolation \/ o.partial) => o.no_discover # NoValue}
    /\ \E fl \in SUBSET Tests :
          repo = [failing |-> fl, count |-> 1,
                  latest |-> [stream |-> OneWorkerStream(ListOf(Tests), "worker-0"),
                              ok |-> fl = {}]]
    /\ InitLocals

NextRun ==
    \/ Prologue
    \/ AdhocRun
    \/ AdhocCheck
    \/ StartBatch
    \/ BatchReturn
    \/ StartIsolated
    \/ IsoList
    \/ IsoCall
    \/ IsoReturn
    \/ IsoEnd
    \/ RunTestsStep

SpecRun == InitRun /\ [][NextRun]_vars

\* Runs with or without combine, on a repository of 0 to MaxRuns runs; the
\* options that no step reads beside combine_id are left unset.
InitCombine ==
    /\ opts \in {o \in [no_discover : {NoValue, BareId}, combine : BOOLEAN,
                        partial : {FALSE}, failing : {FALSE},
                        analyze_isolation : {FALSE}, isolated : BOOLEAN,
                        until_failure : BOOLEAN, subunit_out : {FALSE},
                        load_list : {FALSE}] :
                    TRUE}
    /\ \E n \in 0..MaxRuns :
          /\ repo = [failing |-> {}, count |-> n,
                     latest |-> [stream |-> <<>>, ok |-> TRUE]]
          /\ InitFrame
          /\ hist = [NoHist EXCEPT !.start_count = n]

SpecCombine == InitCombine /\ [][NextRun]_vars

\* Ad-hoc runs of any no_discover value of up to MaxChars characters
Values == SeqsUpTo(Chars, MaxChars) \ {NoValue}

InitAdhoc ==
    /\ opts \in {o \in [no_discover : Values, combine : {FALSE},
                        partial : {FALSE}, failing : {FALSE},
                        analyze_isolation : {FALSE}, isolated : {FALSE},
                        until_failure : BOOLEAN, subunit_out : {FALSE},
                        load_list : {FALSE}] :
                    TRUE}
    /\ repo = [failing |-> {}, count |-> 1,
               latest |-> [stream |-> <<>>, ok |-> TRUE]]
    /\ InitLocals

NextAdhoc == Prologue \/ AdhocRun \/ AdhocCheck

SpecAdhoc == InitAdhoc /\ [][NextAdhoc]_vars

\* Isolation analysis: at most MaxFailing failing tests, any last full run
InitAnalyze ==
    /\ opts = [NoOpts EXCEPT !.analyze_isolation = TRUE]
    /\ \E fl \in SubsetsUpTo(Tests, MaxFailing) :
       \E s \in Streams :
          repo = [failing |-> fl, count |-> 1,
                  latest |-> [stream |-> s, ok |-> fl \cap TestIds(s) = {}]]
    /\ InitLocals

NextAnalyze ==
    \/ Prologue
    \/ StartAnalysis
    \/ SoloCall
    \/ SoloReturn
    \/ PhaseAEnd
    \/ NextFailure
    \/ ProbeCall
    \/ ProbeReturn
    \/ LoopEnd
    \/ Report
    \/ RunTestsStep

SpecAnalyze == InitAnalyze /\ [][NextAnalyze]_vars

\* The bisection on its own: phase b entered with one spurious failure f,
\* which the last full run ran after the candidate list on one worker and
\* which passed alone in phase a. Test ids are opaque, so f is taken to be
\* the last of them.
InitBisect ==
    LET f == NumTests
    IN  \E cands \in SeqsUpTo(Tests \ {f}, MaxLen) :
        \E fl \in {{}, {f}} :
          /\ opts = [NoOpts EXCEPT !.analyze_isolation = TRUE]
          /\ pc = "phase_b"
          /\ repo = [failing |-> fl, count |-> 1,
                     latest |-> [stream |-> ToStream(<<f>>, {f}), ok |-> TRUE]]
          /\ latest_run = OneWorkerStream(cands \o <<f>>, "worker-0")
          /\ wh = NoCache
          /\ combine_id = NoneId
          /\ ids = Ids({f})
          /\ todo = <<f>>
          /\ test_id = f
          /\ cmd = [GetRunCommand(<<f>>) EXCEPT !.st = "clean"]
          /\ rt = IdleFrame
          /\ result = 0
          /\ spurious_failures = {f}
          /\ test_conflicts = EmptyDict
          /\ spurious_failure = f
          /\ candidate_causes = <<>>
          /\ bottom = 0
          /\ top = 0
          /\ width = 0
          /\ out = <<>>
          /\ ret = Running
          /\ hist = [NoHist EXCEPT !.runs[f] = 1]

NextBisect ==
    \/ NextFailure
    \/ ProbeCall
    \/ ProbeReturn
    \/ LoopEnd
    \/ Report
    \/ RunTestsStep

SpecBisect == InitBisect /\ [][NextBisect]_vars

\* The program takes its next step whenever it has one: calls to the
\* worker command, the loader and the repository return.
FairBisect == SpecBisect /\ WF_vars(NextBisect)

\* _prior_tests on its own: one recorded run, any events in it (an id may
\* be recorded more than once: a combined run holds every load made into
\* it), and calls for any id, the mapping cached from the first call on.
OtherTag == "slow"

TagLists == {<<>>, <<"worker-0">>, <<"worker-1">>, <<OtherTag, "worker-0">>,
             <<"worker-0", "worker-1">>}

EventStreams ==
    SeqsUpTo({Event(t, tags) : t \in Tests, tags \in TagLists}, MaxLen)

InitPrior ==
    /\ opts = NoOpts
    /\ repo = [failing |-> {}, count |-> 1, latest |-> [stream |-> <<>>, ok |-> TRUE]]
    /\ latest_run \in EventStreams
    /\ pc = "prior"
    /\ wh = NoCache
    /\ combine_id = NoneId
    /\ ids = NoIds
    /\ todo = <<>>
    /\ test_id = 1
    /\ cmd = NoCommand
    /\ rt = IdleFrame
    /\ result = 0
    /\ spurious_failures = {}
    /\ test_conflicts = EmptyDict
    /\ spurious_failure = 1
    /\ candidate_causes = <<>>
    /\ bottom = 0
    /\ top = 0
    /\ width = 0
    /\ out = <<>>
    /\ ret = Running
    /\ hist = NoHist

\* run.py:411-451: one call _prior_tests(run, failing_id)
PriorCall ==
    /\ pc = "prior"
    /\ wh.decodes < MaxIter
    /\ \E failing_id \in Tests :
        /\ spurious_failure' = failing_id
        /\ wh' = Decode(wh, latest_run)
        /\ IF PriorTestsRaises(wh'.stream, failing_id)
           THEN /\ ret' = Raised
                /\ candidate_causes' = <<>>
           ELSE /\ ret' = Returned(0)
                /\ candidate_causes' = PriorTests(wh'.stream, failing_id)
    /\ UNCHANGED <<opts, combine_id, pc, repo, latest_run, ids, todo, test_id, cmd, rt,
                   result, spurious_failures, test_conflicts, bottom, top,
                   width, out, hist>>

NextPrior == PriorCall

SpecPrior == InitPrior /\ [][NextPrior]_vars

\* ------------------------------------------------------------- claims
\* The bisection of spurious failure f is over and did not raise
Bisected(f) ==
    /\ pc \in {"phase_b", "while", "probe", "done"}
    /\ ret.kind # "raise"
    /\ f \in spurious_failures \ Range(todo)
    /\ ~(f = spurious_failure /\ pc \in {"while", "probe"})

InLoop == pc \in {"while", "probe"}

C2_Mapped(f) ==
    /\ f \in DOMAIN test_conflicts
    /\ test_conflicts[f] \in
          Range(PriorTests(latest_run, f)) \cup {UnknownNoConflicts}

UntilFailureReturned ==
    rt.pc \in {"cleanUp", "ret"} /\ rt.until_failure /\ ~rt.exc

\* The until-failure loop of the ad-hoc run has returned a value
AdhocLoopReturned ==
    /\ NoDiscover /\ opts.until_failure
    /\ pc = "done" /\ ret.kind = "return"

\* k results, all 0 but the last, k batches run, the last result returned
LoopShape(results, iters, returned) ==
    LET k == Len(results)
    IN  /\ k >= 1
        /\ \A i \in 1..(k - 1) : results[i] = 0
        /\ results[k] # 0
        /\ iters = k
        /\ returned = results[k]

\* C4 (as claimed): an until-failure loop returns only after an iteration k
\* with a non-zero result, preceded by k-1 iterations with result 0; it has
\* then run k batches, made k Stream Loader calls, and returns the result of
\* iteration k.
C4_KIterationsKLoads ==
    /\ UntilFailureReturned =>
          /\ LoopShape(rt.results, rt.iters, rt.result)
          /\ rt.loads = Len(rt.results)
    /\ AdhocLoopReturned =>
          /\ LoopShape(hist.results, hist.iters, ret.value)
          /\ hist.loads = Len(hist.results)

\* C4 (amended): as above, but the Stream Loader is called once for each
\* batch that produced processes: k times, or k-1 times when iteration k of
\* _run_tests found no test to run (its result is then not 0).
C4_KIterationsLoadsPerBatch ==
    /\ UntilFailureReturned =>
          /\ LoopShape(rt.results, rt.iters, rt.result)
          /\ rt.nomatches \in {0, 1}
          /\ rt.loads = Len(rt.results) - rt.nomatches
    /\ AdhocLoopReturned =>
          /\ LoopShape(hist.results, hist.iters, ret.value)
          /\ hist.loads = Len(hist.results)
    /\ (pc = "done" /\ ret.kind = "return" /\ opts.until_failure
            /\ ~NoDiscover /\ ~opts.isolated) =>
          /\ UntilFailureReturned
          /\ ret.value = rt.results[Len(rt.results)]

\* Two passing iterations and a third failing with code 2, returned by
\* run_command.
C4_Witness ==
    /\ pc = "done" /\ ret = Returned(2)
    /\ ~NoDiscover /\ ~opts.isolated
    /\ UntilFailureReturned
    /\ rt.results = <<0, 0, 2>>
    /\ rt.iters = 3 /\ rt.loads = 3

\* C5 (as claimed): when control leaves _run_tests, cleanUp has been called
\* exactly once on its command.
C5_CleanUpExactlyOnce ==
    /\ rt.cleanUps <= 1
    /\ rt.pc = "ret" => rt.cleanUps = 1

\* C5 (amended): when control leaves an invocation of _run_tests whose
\* setUp returned, cleanUp has been called exactly once, on every path: a
\* result of 0 or not, no test matched, the until-failure loop's exit, an
\* error from run_tests, the loader or the re-check. When setUp raises,
\* control leaves without a cleanUp call.
C5_CleanUpOnceAfterSetUp ==
    /\ rt.cleanUps <= 1
    /\ rt.pc = "ret" => rt.cleanUps = rt.setUps
    /\ rt.pc \in {"spawn", "load", "check", "cleanUp"} =>
          (rt.setUps = 1 /\ rt.cleanUps = 0)
    /\ rt.pc = "ret" /\ rt.cleanUps = 1 => cmd.st = "clean"

\* An error propagated in the second round of an until-failure loop, after
\* one load, with the command cleaned up once.
C5_Witness ==
    /\ rt.pc = "ret" /\ rt.exc
    /\ rt.until_failure /\ rt.iters = 2 /\ rt.loads = 1
    /\ rt.setUps = 1 /\ rt.cleanUps = 1

\* The greatest element of a non-empty set of numbers
Greatest(S) == CHOOSE m \in S : \A x \in S : x <= m

IsolatedReturned ==
    /\ opts.isolated /\ ~NoDiscover /\ ~opts.analyze_isolation
    /\ pc = "done" /\ ret.kind = "return"

\* C6: when run_command returns in isolated mode, every discovered id has
\* been run exactly once by a command of its own, no other id has been run,
\* and the value returned is the greatest per-test code, 0 when there is
\* none; ids after a failing one are run all the same.
C6_IsolatedRunsEachOnceMax ==
    IsolatedReturned =>
        /\ ids.none = FALSE
        /\ \A t \in Tests :
              hist.runs[t] = IF t \in ids.set THEN 1 ELSE 0
        /\ ret.value = Greatest({hist.codes[t] : t \in ids.set} \cup {0})

\* Three ids discovered, codes 0, 2, 0: the value returned is 2.
C6_Witness ==
    /\ IsolatedReturned
    /\ ids.set = {1, 2, 3}
    /\ hist.codes[1] = 0 /\ hist.codes[2] = 2 /\ hist.codes[3] = 0
    /\ ret.value = 2

\* Isolation analysis has returned a value
AnalysisReturned ==
    /\ opts.analyze_isolation /\ ~NoDiscover
    /\ pc = "done" /\ ret.kind = "return"

C10_EmptyIdsRaise ==
    (opts.analyze_isolation /\ ~NoDiscover /\ pc = "done"
        /\ ids = Ids({})) =>
        /\ ret.kind = "raise"
        /\ \A t \in Tests : hist.runs[t] = 0

\* A call of _prior_tests has ended
PriorCalled == pc = "prior" /\ ret.kind # "none"

\* C11: a call of _prior_tests for an id that no event of the run carries
\* ends by raising (the KeyError of the lookup) and hands back no list; a
\* call for an id the run holds returns.
C11_AbsentIdRaises ==
    PriorCalled =>
        IF \E i \in 1..Len(latest_run) : latest_run[i].id = spurious_failure
        THEN ret.kind = "return"
        ELSE ret.kind = "raise" /\ candidate_causes = <<>>

\* A call for test 3 on a run that recorded tests 1 and 2 only, after the
\* mapping was cached, raises.
C11_Witness ==
    /\ PriorCalled /\ ret = Raised /\ wh.built
    /\ spurious_failure = 3
    /\ Len(latest_run) = 2
    /\ latest_run[1].id = 1 /\ latest_run[2].id = 2

\* The worker tags of event i of the run
WorkerTagsAt(i) == {tag \in Range(latest_run[i].tags) : tag \in Workers}

\* The events of the run that carry id f
EventsOf(f) == {i \in 1..Len(latest_run) : latest_run[i].id = f}

\* Every event of f is on one and the same worker (or on none)
OnSingleWorker(f) ==
    /\ EventsOf(f) # {}
    /\ \A i \in EventsOf(f) : Cardinality(WorkerTagsAt(i)) <= 1
    /\ \A i, j \in EventsOf(f) : WorkerTagsAt(i) = WorkerTagsAt(j)

\* The ids recorded before position p on the worker of the event at p, in
\* the order of the run
PrefixOnWorker(p) ==
    LET before == SelectSeq([i \in 1..(p - 1) |-> i],
                            LAMBDA i : IF WorkerTagsAt(p) = {}
                                       THEN WorkerTagsAt(i) = {}
                                       ELSE WorkerTagsAt(p) \subseteq
                                                WorkerTagsAt(i))
    IN  [k \in 1..Len(before) |-> latest_run[before[k]].id]

\* C12 (as claimed): for an id f whose events are all on one worker,
\* _prior_tests returns exactly the ids recorded on that worker before f,
\* in recorded order; f itself is not among them.
C12_ExactPrefixOnWorker ==
    (PriorCalled /\ OnSingleWorker(spurious_failure)) =>
        /\ ret.kind = "return"
        /\ candidate_causes =
              PrefixOnWorker(CHOOSE p \in EventsOf(spurious_failure) :
                                \A q \in EventsOf(spurious_failure) : p <= q)
        /\ spurious_failure \notin Range(candidate_causes)

\* C13: an iteration of _run_tests in which run_tests yields no process
\* writes the no-match message, makes no loader call (so persists no run),
\* gives result 1 and is the last iteration, with until_failure too; the
\* call, unless the re-check raises, returns 1.
C13_NoMatchReturnsOne ==
    /\ rt.nomatches <= 1
    /\ rt.nomatches = 1 =>
          /\ rt.pc \in {"check", "cleanUp", "ret"}
          /\ rt.loads = rt.iters - 1
          /\ out # <<>> /\ out[Len(out)] = "nomatch"
          /\ ~rt.exc => rt.result = 1
    /\ (pc = "done" /\ ret.kind = "return" /\ rt.nomatches = 1) =>
          ret.value = 1

\* The second round of an until-failure loop matches nothing: one load, the
\* message, 1 returned by run_command.
C13_Witness ==
    /\ pc = "done" /\ ret = Returned(1)
    /\ rt.until_failure /\ rt.iters = 2 /\ rt.nomatches = 1
    /\ rt.loads = 1 /\ rt.results = <<0, 1>>
    /\ out = <<"nomatch">>

\* The run id every load of this run_command call is to receive
ExpectedRunId ==
    IF opts.combine THEN TextType(hist.start_count - 1) ELSE NoneId

\* C14: in ad-hoc, batch and isolated mode every loader call receives, as
\* its run id, the (text of the) id of the run that was the repository's
\* latest when run_command started if combine is set, and None if it is
\* not; the id is read before anything is run, so with combine on a
\* repository without a run nothing is run at all.
C14_CombineIdCapturedOnce ==
    /\ rt.run_ids \subseteq {ExpectedRunId}
    /\ hist.run_ids \subseteq {ExpectedRunId}
    /\ pc \notin {"start", "done"} => combine_id = ExpectedRunId
    /\ pc = "start" => (rt.pc = "idle" /\ hist.iters = 0)
    /\ (opts.combine /\ hist.start_count = 0) =>
          (rt.pc = "idle" /\ hist.iters = 0 /\ pc \in {"start", "done"})

\* The third per-test run of an isolated run with combine loads into run 1,
\* the latest of the two runs the repository held at the start.
C14_Witness ==
    /\ opts.combine /\ opts.isolated /\ ~NoDiscover
    /\ hist.start_count = 2
    /\ pc = "iso_run" /\ todo = <<>> /\ Cardinality(ids.set) = 3
    /\ rt.loads = 1 /\ rt.run_ids = {TextType(1)}

\* The ad-hoc run has made its id
AdhocIdMade == NoDiscover /\ pc \in {"adhoc_check", "adhoc_loop", "done"}
               /\ hist.iters >= 1

\* The length of the file extension of a path: what follows the last dot
\* of the last component, dot included, when the component has a character
\* other than a dot before it; else 0
ExtensionLen(p) ==
    LET n == Len(p)
        seg == CHOOSE i \in 1..(n + 1) :
                  /\ \A j \in i..n : p[j] # "/"
                  /\ (i > 1 => p[i - 1] = "/")
        dots == {j \in seg..n : p[j] = "." /\ \E k \in seg..(j - 1) : p[k] # "."}
    IN  IF dots = {} THEN 0
        ELSE n + 1 - (CHOOSE j \in dots : \A k \in dots : k <= j)

\* C15: the id of the ad-hoc run is the no_discover value itself when the
\* value holds no path separator; else it is the value without its file
\* extension, every path separator turned into a dot, the dots of the
\* path's segments left as they are.
C15_AdhocIdFromPath ==
    AdhocIdMade =>
        LET value == opts.no_discover
        IN  IF \A i \in 1..Len(value) : value[i] # "/"
            THEN ids = value
            ELSE /\ Len(ids) = Len(value) - ExtensionLen(value)
                 /\ \A i \in 1..Len(ids) :
                       ids[i] = IF value[i] = "/" THEN "." ELSE value[i]

\* 't.t/t.t' (a segment with a dot, a file with an extension) gives 't.t.t'.
C15_Witness ==
    /\ AdhocIdMade
    /\ opts.no_discover = <<"t", ".", "t", "/", "t", ".", "t">>
    /\ ids = <<"t", ".", "t", ".", "t">>

\* The solo run of test_id has just returned to phase a
SoloReturned == pc = "phase_a" /\ rt.pc = "ret" /\ ~rt.exc

C17_AdhocRecheckOnlyWithSubunitOut ==
    (NoDiscover /\ opts.until_failure /\ ~opts.subunit_out) =>
        /\ hist.rereads = 0
        /\ (hist.results # <<>> =>
                hist.results[Len(hist.results)] = hist.inner)

\* The until_failure loop of _run_tests has checked an iteration and the
\* repository is as that check saw it (nothing was loaded since, and no
\* later check raised)
IterationChecked ==
    /\ rt.until_failure
    /\ rt.results # <<>>
    /\ rt.pc \in {"spawn", "cleanUp", "ret"}
    /\ ~rt.exc

\* C18: in the until_failure loop of _run_tests with subunit output, the
\* latest run is read again after every iteration and an unsuccessful one
\* makes the iteration's result 1 whatever the loader returned, which
\* stops the loop; without subunit output the repository is not read again
\* and the result is what the inner run_tests() returned.
C18_UntilFailureRecheck ==
    /\ (rt.until_failure /\ rt.subunit_out) => rt.rereads >= Len(rt.results)
    /\ ~(rt.until_failure /\ rt.subunit_out) => rt.rereads = 0
    /\ IterationChecked =>
            LET last == rt.results[Len(rt.results)]
            IN  /\ rt.subunit_out =>
                    /\ rt.rereads = Len(rt.results)
                    /\ last = (IF ~repo.latest.ok THEN 1 ELSE rt.inner)
                /\ ~rt.subunit_out => last = rt.inner
                /\ (last # 0 => rt.pc \in {"cleanUp", "ret"})

\* An iteration whose loader returned 0 was made a failure by the recheck
C18_Witness ==
    /\ IterationChecked
    /\ rt.subunit_out
    /\ rt.nomatches = 0
    /\ rt.loads = 2
    /\ rt.inner = 0
    /\ rt.results = <<0, 1>>
    /\ rt.pc = "ret"

\* C19 (as claimed): every load.load call made by _run_tests is given
\* partial = true exactly when failing, analyze_isolation or isolated was
\* asked of run_command, the solo runs and the bisection probes of the
\* isolation analysis included.
C19_PartialIffIncompleteRun ==
    ~NoDiscover =>
        rt.partials \subseteq
            {opts.failing \/ opts.analyze_isolation \/ opts.isolated}

\* C20: when no_discover is given, whatever failing, load_list, isolated
\* and analyze_isolation are, run_command stays in the ad-hoc mode: no
\* worker command is built, set up or listed and _run_tests is not called,
\* the failing set is not resolved and no list file is read; each
\* iteration spawns one subprocess and makes one loader call on its single
\* stream (an iteration whose call raised is the last).
C20_NoDiscoverOnlyAdhoc ==
    NoDiscover =>
        /\ pc \in {"start", "mode", "adhoc_check", "adhoc_loop", "done"}
        /\ cmd = NoCommand
        /\ rt = IdleFrame
        /\ hist.selects = 0
        /\ hist.list_reads = 0
        /\ hist.loads <= hist.iters
        /\ hist.iters <= hist.loads + 1
        /\ (hist.loads < hist.iters => (pc = "done" /\ ret = Raised))
        /\ (hist.loads > 0 => TestIds(repo.latest.stream) \subseteq {AdhocTest})

\* An ad-hoc loop of two iterations that returned, with every other mode
\* asked for as well
C20_Witness ==
    /\ NoDiscover
    /\ opts.failing /\ opts.load_list /\ opts.isolated
    /\ opts.analyze_isolation /\ opts.until_failure
    /\ repo.failing # {}
    /\ pc = "done"
    /\ ret = Returned(1)
    /\ hist.iters = 2
    /\ hist.loads = 2

IsPrefix(s, t) == Len(s) <= Len(t) /\ s = SubSeq(t, 1, Len(s))

\* The steps of a probe that persisted a run, and of one whose command
\* yielded no test process
PersistingProbe == <<"setUp", "run", "load", "cleanUp", "read">>
NoMatchProbe == <<"setUp", "run", "cleanUp", "read">>

\* The range after a read is the one the read's outcome gives from the
\* range the probe started with (run.py:380-398)
NarrowedByRead ==
    LET p  == hist.prev
        cw == CheckWidth(p.width)
    IN  /\ bottom = (IF hist.reproduced THEN p.bottom ELSE p.bottom + cw)
        /\ top = (IF hist.reproduced THEN p.bottom + cw ELSE p.top)
        /\ width = (IF p.width = 1 THEN 0 ELSE top - bottom)

\* Probes run one at a time: the command of a probe is set up only while
\* that probe is under way, a probe starts only when every earlier probe's
\* read is done, and it runs the slice of the range the last read left
ProbesOneAtATime ==
    /\ (pc = "probe" => /\ hist.reads = hist.probes - 1
                        /\ cmd.ids = ProbeSlice \o <<spurious_failure>>)
    /\ (pc = "while" => hist.reads = hist.probes)
    /\ (pc = "while" /\ hist.reads >= 1 => NarrowedByRead)
    /\ (cmd.st = "setup" => pc = "probe")

CauseRecorded ==
    /\ spurious_failure \in DOMAIN test_conflicts
    /\ test_conflicts[spurious_failure] # UnknownNoConflicts

SetUpWindow ==
    \/ pc = "iso_list"
    \/ rt.pc \in {"spawn", "load", "check", "cleanUp"}

\* A command in the set-up state is cleaned up before `cmd` names another
OneSetUpCommand ==
    /\ (cmd.st = "setup" => SetUpWindow)
    /\ (pc \in {"start", "mode", "iso_loop"} => cmd.st # "setup")
    /\ (pc = "iso_loop" => cmd.st = "clean")
    /\ (pc = "iso_run" /\ rt.pc = "setUp" => cmd.st = "new")

\* C25 (as claimed): at most one command is set up at any point; in
\* isolated mode the discovery command is cleaned up before the first
\* per-test command is set up and each per-test command before the next;
\* when control leaves a _run_tests call, setUp and cleanUp have each been
\* called exactly once, however many iterations ran.
C25_OneSetUpOneCleanUp ==
    /\ OneSetUpCommand
    /\ rt.setUpCalls <= 1
    /\ rt.cleanUps <= 1
    /\ (rt.pc = "ret" => (rt.setUpCalls = 1 /\ rt.cleanUps = 1))

\* C25 (amended): the same, but cleanUp is called exactly once only in a
\* _run_tests call whose setUp returned; when setUp raises, cleanUp is not
\* called.  A command that is set up leaves `cmd` only cleaned up.
C25_OneSetUpCleanUpIfSetUp ==
    /\ [](/\ OneSetUpCommand
          /\ rt.setUpCalls <= 1
          /\ rt.cleanUps <= 1
          /\ (rt.pc = "ret" => (rt.setUpCalls = 1 /\ rt.cleanUps = rt.setUps)))
    /\ [][cmd.st = "setup" =>
              (cmd' = cmd \/ cmd' = [cmd EXCEPT !.st = "clean"])]_vars

\* The second per-test command of an isolated run is set up, in its third
\* until-failure iteration, the first one having been cleaned up
C25_Witness ==
    /\ pc = "iso_run"
    /\ Cardinality({t \in Tests : hist.runs[t] = 1}) = 2
    /\ cmd.st = "setup"
    /\ rt.pc = "load"
    /\ rt.iters = 3
    /\ rt.setUpCalls = 1
    /\ rt.cleanUps = 0
====
